---- MODULE Spec2Model ----
(***************************************************************************)
(* A model of the CSR sparse matrix of src/sparseMatrix.js: the three      *)
(* parallel arrays, the element accessor and mutator, the row-merge        *)
(* addition and subtraction, the scratch-row multiplication and the text   *)
(* codec (loadFromFile / saveToFile).                                      *)
(*                                                                         *)
(* JavaScript arrays are 0-based; a TLA+ sequence s models the array whose *)
(* element i is s[i+1].  Offsets stored in row_ptr and positions handled   *)
(* by the operators below are the 0-based JavaScript ones.                 *)
(***************************************************************************)
EXTENDS Integers, Sequences, FiniteSets, TLC

\* Largest row count and column count of a matrix.
MaxRows == 2
MaxCols == 3
\* Values passed to setElement range over -MaxVal..MaxVal.
MaxVal == 1

VARIABLES
    A,      \* the matrix `this`
    B,      \* the matrix `other` of add / subtract / multiply
    file,   \* the content of the matrix file, a sequence of characters
    res     \* the outcome of the last call

vars == <<A, B, file, res>>

Vals == (0 - MaxVal)..MaxVal

----------------------------------------------------------------------------
(* JavaScript array helpers *)

At(s, i) == s[i + 1]

\* Array.prototype.splice(pos, 0, x)
SpliceIn(s, pos, x) == SubSeq(s, 1, pos) \o <<x>> \o SubSeq(s, pos + 1, Len(s))

\* Array.prototype.splice(pos, 1)
SpliceOut(s, pos) == SubSeq(s, 1, pos) \o SubSeq(s, pos + 2, Len(s))

----------------------------------------------------------------------------
(* The constructor without a file: an empty matrix *)

NewMatrix(numRows, numCols) ==
    [rows        |-> numRows,
     cols        |-> numCols,
     values      |-> <<>>,
     col_indices |-> <<>>,
     row_ptr     |-> IF numRows > 0 THEN [i \in 1..(numRows + 1) |-> 0] ELSE <<0>>]

\* A bounds check that lets an index equal to the dimension through.
OutOfBoundsLax(m, row, col) == row < 0 \/ row > m.rows \/ col < 0 \/ col > m.cols

\* The bounds check shared by getElement and setElement.
OutOfBounds(m, row, col) == row < 0 \/ row >= m.rows \/ col < 0 \/ col >= m.cols

\* End offset of row i as add, subtract, multiply, getElement and saveToFile read it.
RowEnd(m, i) == IF i + 1 < Len(m.row_ptr) THEN At(m.row_ptr, i + 1) ELSE Len(m.values)

IndexErr == "Indices out of bounds"

----------------------------------------------------------------------------
(* getElement *)

RECURSIVE ScanGet(_, _, _, _)
ScanGet(m, i, end, col) ==
    IF i < end
    THEN IF At(m.col_indices, i) = col THEN At(m.values, i)
         ELSE ScanGet(m, i + 1, end, col)
    ELSE 0

getElement(m, row, col) ==
    IF OutOfBounds(m, row, col)
    THEN [err |-> IndexErr, val |-> 0]
    ELSE [err |-> "", val |-> ScanGet(m, At(m.row_ptr, row), RowEnd(m, row), col)]

----------------------------------------------------------------------------
(* setElement *)

\* while (row_ptr.length <= row + 1) row_ptr.push(last)
RECURSIVE PadRowPtr(_, _)
PadRowPtr(rp, row) ==
    IF Len(rp) <= row + 1 THEN PadRowPtr(Append(rp, rp[Len(rp)]), row) ELSE rp

\* while (pos < end && col_indices[pos] < col) pos++
RECURSIVE ScanPos(_, _, _, _)
ScanPos(ci, pos, end, col) ==
    IF pos < end /\ At(ci, pos) < col THEN ScanPos(ci, pos + 1, end, col) ELSE pos

\* A cascade that starts one row too late.
ShiftRowPtrLate(rp, row, d) ==
    [k \in 1..Len(rp) |-> IF k - 1 >= row + 2 THEN rp[k] + d ELSE rp[k]]

\* for (i = row + 1; i < row_ptr.length; i++) row_ptr[i] += d
ShiftRowPtr(rp, row, d) ==
    [k \in 1..Len(rp) |-> IF k - 1 >= row + 1 THEN rp[k] + d ELSE rp[k]]

\* A mutator that overwrites with whatever it is given, zero included.
StoreElementKeepZero(m, row, col, value) ==
    LET rp    == PadRowPtr(m.row_ptr, row)
        start == At(rp, row)
        end   == At(rp, row + 1)
        pos   == ScanPos(m.col_indices, start, end, col)
    IN  IF pos < end /\ At(m.col_indices, pos) = col
        THEN [m EXCEPT !.values  = [m.values EXCEPT ![pos + 1] = value],
                       !.row_ptr = rp]
        ELSE IF value # 0
             THEN [m EXCEPT !.values      = SpliceIn(m.values, pos, value),
                            !.col_indices = SpliceIn(m.col_indices, pos, col),
                            !.row_ptr     = ShiftRowPtr(rp, row, 1)]
             ELSE [m EXCEPT !.row_ptr = rp]

\* The mutation once the indices are known to be in bounds.
StoreElement(m, row, col, value) ==
    LET rp    == PadRowPtr(m.row_ptr, row)
        start == At(rp, row)
        end   == At(rp, row + 1)
        pos   == ScanPos(m.col_indices, start, end, col)
    IN  IF pos < end /\ At(m.col_indices, pos) = col
        THEN IF value = 0
             THEN [m EXCEPT !.values      = SpliceOut(m.values, pos),
                            !.col_indices = SpliceOut(m.col_indices, pos),
                            !.row_ptr     = ShiftRowPtr(rp, row, 0 - 1)]
             ELSE [m EXCEPT !.values  = [m.values EXCEPT ![pos + 1] = value],
                            !.row_ptr = rp]
        ELSE IF value # 0
             THEN [m EXCEPT !.values      = SpliceIn(m.values, pos, value),
                            !.col_indices = SpliceIn(m.col_indices, pos, col),
                            !.row_ptr     = ShiftRowPtr(rp, row, 1)]
             ELSE [m EXCEPT !.row_ptr = rp]

setElement(m, row, col, value) ==
    IF OutOfBounds(m, row, col)
    THEN [err |-> IndexErr, m |-> m]
    ELSE [err |-> "", m |-> StoreElement(m, row, col, value)]

----------------------------------------------------------------------------
(* The record of the last call *)

NoMatrix == NewMatrix(0, 0)

NoRes ==
    [op |-> "none", row |-> 0, col |-> 0, value |-> 0, ret |-> 0,
     err |-> "", line |-> 0, hasMat |-> FALSE, mat |-> NoMatrix]

----------------------------------------------------------------------------
(* The element operations on A *)

Dims == (1..MaxRows) \X (1..MaxCols)

\* Indices offered to getElement and setElement: one below and one at the dimension too.
RowArgs == (0 - 1)..MaxRows
ColArgs == (0 - 1)..MaxCols

Init ==
    /\ \E d \in Dims : A = NewMatrix(d[1], d[2])
    /\ B = NoMatrix
    /\ file = <<>>
    /\ res = NoRes

SetElement ==
    \E row \in RowArgs, col \in ColArgs, value \in Vals :
        LET r == setElement(A, row, col, value) IN
        /\ A' = r.m
        /\ res' = [NoRes EXCEPT !.op = "set", !.row = row, !.col = col,
                                !.value = value, !.err = r.err]
        /\ UNCHANGED <<B, file>>

GetElement ==
    \E row \in RowArgs, col \in ColArgs :
        LET r == getElement(A, row, col) IN
        /\ res' = [NoRes EXCEPT !.op = "get", !.row = row, !.col = col,
                                !.ret = r.val, !.err = r.err]
        /\ UNCHANGED <<A, B, file>>

Next == SetElement \/ GetElement

Spec == Init /\ [][Next]_vars

----------------------------------------------------------------------------
(* The invariants I1-I3 of the data model *)

\* I3: the row pointer has rows+1 entries, starts at 0, never decreases and ends at
\* the common length of values and col_indices.
RowPtrConsistent(m) ==
    /\ Len(m.row_ptr) = m.rows + 1
    /\ m.row_ptr[1] = 0
    /\ \A k \in 1..m.rows : m.row_ptr[k] <= m.row_ptr[k + 1]
    /\ m.row_ptr[m.rows + 1] = Len(m.values)
    /\ Len(m.values) = Len(m.col_indices)

\* I1: inside each row slice the columns are strictly increasing and in [0, cols).
RowsSorted(m) ==
    \A r \in 0..(m.rows - 1) :
        \A p \in m.row_ptr[r + 1]..(m.row_ptr[r + 2] - 1) :
            /\ m.col_indices[p + 1] >= 0
            /\ m.col_indices[p + 1] < m.cols
            /\ p + 1 < m.row_ptr[r + 2] => m.col_indices[p + 1] < m.col_indices[p + 2]

\* I2: no stored value is zero.
NoStoredZero(m) == \A p \in 1..Len(m.values) : m.values[p] # 0

WellFormed(m) == RowPtrConsistent(m) /\ RowsSorted(m) /\ NoStoredZero(m)

\* The cell (r, c) as getElement reads it.
Cell(m, r, c) == getElement(m, r, c).val

RowsOf(m) == 0..(m.rows - 1)
ColsOf(m) == 0..(m.cols - 1)

----------------------------------------------------------------------------
(* add and subtract: the two-pointer merge of one row after the other *)

AddErr == "Matrix dimensions must match for addition"
SubErr == "Matrix dimensions must match for subtraction"
MulErr == "Columns of first matrix must match rows of second matrix"

\* A shape check that forgets the columns.
ShapesDifferRowsOnly(this, other) == this.rows # other.rows

\* this.rows !== other.rows || this.cols !== other.cols
ShapesDiffer(this, other) == this.rows # other.rows \/ this.cols # other.cols

\* The outcome of an arithmetic call: an error, or a fresh matrix.
Failed(msg) == [err |-> msg, hasMat |-> FALSE, mat |-> NoMatrix]
Returned(m) == [err |-> "", hasMat |-> TRUE, mat |-> m]

\* result.setElement(i, col, value) on the result under construction; the column comes
\* from an operand of the same shape, so the call is in bounds and does not throw.
Put(result, i, col, value) == setElement(result, i, col, value).m

RECURSIVE AddMerge(_, _, _, _, _, _, _, _)
AddMerge(this, other, result, i, p1, p2, selfEnd, otherEnd) ==
    IF p1 < selfEnd /\ p2 < otherEnd
    THEN LET col1 == At(this.col_indices, p1)
             col2 == At(other.col_indices, p2)
         IN  IF col1 < col2
             THEN AddMerge(this, other, Put(result, i, col1, At(this.values, p1)),
                           i, p1 + 1, p2, selfEnd, otherEnd)
             ELSE IF col2 < col1
             THEN AddMerge(this, other, Put(result, i, col2, At(other.values, p2)),
                           i, p1, p2 + 1, selfEnd, otherEnd)
             ELSE LET sumVal == At(this.values, p1) + At(other.values, p2)
                  IN  AddMerge(this, other,
                               IF sumVal # 0 THEN Put(result, i, col1, sumVal) ELSE result,
                               i, p1 + 1, p2 + 1, selfEnd, otherEnd)
    ELSE IF p1 < selfEnd
    THEN AddMerge(this, other,
                  Put(result, i, At(this.col_indices, p1), At(this.values, p1)),
                  i, p1 + 1, p2, selfEnd, otherEnd)
    ELSE IF p2 < otherEnd
    THEN AddMerge(this, other,
                  Put(result, i, At(other.col_indices, p2), At(other.values, p2)),
                  i, p1, p2 + 1, selfEnd, otherEnd)
    ELSE result

RECURSIVE AddRows(_, _, _, _)
AddRows(this, other, result, i) ==
    IF i < this.rows
    THEN AddRows(this, other,
                 AddMerge(this, other, result, i,
                          At(this.row_ptr, i), At(other.row_ptr, i),
                          RowEnd(this, i), RowEnd(other, i)),
                 i + 1)
    ELSE result

add(this, other) ==
    IF ShapesDiffer(this, other)
    THEN Failed(AddErr)
    ELSE Returned(AddRows(this, other, NewMatrix(this.rows, this.cols), 0))

\* A right-hand entry copied as it is.
RightAsIs(v) == v

\* -other.values[p2]: a right-hand entry with no left-hand partner
RightOnly(v) == 0 - v

RECURSIVE SubMerge(_, _, _, _, _, _, _, _)
SubMerge(this, other, result, i, p1, p2, selfEnd, otherEnd) ==
    IF p1 < selfEnd /\ p2 < otherEnd
    THEN LET col1 == At(this.col_indices, p1)
             col2 == At(other.col_indices, p2)
         IN  IF col1 < col2
             THEN SubMerge(this, other, Put(result, i, col1, At(this.values, p1)),
                           i, p1 + 1, p2, selfEnd, otherEnd)
             ELSE IF col2 < col1
             THEN SubMerge(this, other,
                           Put(result, i, col2, RightOnly(At(other.values, p2))),
                           i, p1, p2 + 1, selfEnd, otherEnd)
             ELSE LET diffVal == At(this.values, p1) - At(other.values, p2)
                  IN  SubMerge(this, other,
                               IF diffVal # 0 THEN Put(result, i, col1, diffVal) ELSE result,
                               i, p1 + 1, p2 + 1, selfEnd, otherEnd)
    ELSE IF p1 < selfEnd
    THEN SubMerge(this, other,
                  Put(result, i, At(this.col_indices, p1), At(this.values, p1)),
                  i, p1 + 1, p2, selfEnd, otherEnd)
    ELSE IF p2 < otherEnd
    THEN SubMerge(this, other,
                  Put(result, i, At(other.col_indices, p2),
                      RightOnly(At(other.values, p2))),
                  i, p1, p2 + 1, selfEnd, otherEnd)
    ELSE result

RECURSIVE SubRows(_, _, _, _)
SubRows(this, other, result, i) ==
    IF i < this.rows
    THEN SubRows(this, other,
                 SubMerge(this, other, result, i,
                          At(this.row_ptr, i), At(other.row_ptr, i),
                          RowEnd(this, i), RowEnd(other, i)),
                 i + 1)
    ELSE result

subtract(this, other) ==
    IF ShapesDiffer(this, other)
    THEN Failed(SubErr)
    ELSE Returned(SubRows(this, other, NewMatrix(this.rows, this.cols), 0))

----------------------------------------------------------------------------
(* multiply: accumulate each output row in a dense scratch row, then append *)

\* Array(n).fill(0)
ZeroRow(n) == [j \in 1..n |-> 0]

\* A scratch row handed on as the previous output row left it.
KeepRow(tempRow, n) == tempRow

\* for (j = 0; j < other.cols; j++) tempRow[j] = 0
ResetRow(tempRow, n) == [j \in 1..Len(tempRow) |-> IF j - 1 < n THEN 0 ELSE tempRow[j]]

\* the inner loop over row colInSelf of other
RECURSIVE AccumulateOther(_, _, _, _, _)
AccumulateOther(other, tempRow, rowVal, p2, otherEnd) ==
    IF p2 < otherEnd
    THEN LET product   == rowVal * At(other.values, p2)
             resultCol == At(other.col_indices, p2)
         IN  AccumulateOther(other,
                             [tempRow EXCEPT ![resultCol + 1] = @ + product],
                             rowVal, p2 + 1, otherEnd)
    ELSE tempRow

\* the loop over the entries of row i of this
RECURSIVE AccumulateSelf(_, _, _, _, _)
AccumulateSelf(this, other, tempRow, p1, selfEnd) ==
    IF p1 < selfEnd
    THEN LET rowVal    == At(this.values, p1)
             colInSelf == At(this.col_indices, p1)
         IN  AccumulateSelf(this, other,
                            AccumulateOther(other, tempRow, rowVal,
                                            At(other.row_ptr, colInSelf),
                                            RowEnd(other, colInSelf)),
                            p1 + 1, selfEnd)
    ELSE tempRow

\* A collection that keeps every column, zero or not.
RECURSIVE CollectAll(_, _, _)
CollectAll(tempRow, j, n) ==
    IF j < n THEN <<<<j, At(tempRow, j)>>>> \o CollectAll(tempRow, j + 1, n) ELSE <<>>

\* for (j = 0; j < other.cols; j++) if (tempRow[j] !== 0) nonZeroEntries.push([j, tempRow[j]])
RECURSIVE CollectNonZero(_, _, _)
CollectNonZero(tempRow, j, n) ==
    IF j < n
    THEN (IF At(tempRow, j) # 0 THEN <<<<j, At(tempRow, j)>>>> ELSE <<>>)
         \o CollectNonZero(tempRow, j + 1, n)
    ELSE <<>>

\* Array.prototype.sort is stable: x goes behind every element that does not compare
\* greater than it.  Comparator a[0] - b[0].
RECURSIVE InsertByCol(_, _)
InsertByCol(sorted, x) ==
    IF sorted = <<>> THEN <<x>>
    ELSE IF sorted[Len(sorted)][1] - x[1] > 0
         THEN Append(InsertByCol(SubSeq(sorted, 1, Len(sorted) - 1), x), sorted[Len(sorted)])
         ELSE Append(sorted, x)

RECURSIVE SortByCol(_)
SortByCol(entries) ==
    IF entries = <<>> THEN <<>>
    ELSE InsertByCol(SortByCol(SubSeq(entries, 1, Len(entries) - 1)), entries[Len(entries)])

\* The bulk append of one output row and the row pointer update behind it.
AppendRow(result, i, nonZeroEntries) ==
    LET n    == Len(nonZeroEntries)
        next == At(result.row_ptr, i) + n
    IN  [result EXCEPT
            !.values      = @ \o [k \in 1..n |-> nonZeroEntries[k][2]],
            !.col_indices = @ \o [k \in 1..n |-> nonZeroEntries[k][1]],
            !.row_ptr     = [k \in 1..Len(@) |-> IF k - 1 >= i + 1 THEN next ELSE @[k]]]

RECURSIVE MulRows(_, _, _, _, _)
MulRows(this, other, result, tempRow, i) ==
    IF i < this.rows
    THEN LET cleared == ResetRow(tempRow, other.cols)
             filled  == AccumulateSelf(this, other, cleared,
                                       At(this.row_ptr, i), RowEnd(this, i))
             entries == SortByCol(CollectNonZero(filled, 0, other.cols))
         IN  MulRows(this, other, AppendRow(result, i, entries), filled, i + 1)
    ELSE result

multiply(this, other) ==
    IF this.cols # other.rows
    THEN Failed(MulErr)
    ELSE Returned(MulRows(this, other, NewMatrix(this.rows, other.cols),
                          ZeroRow(other.cols), 0))

----------------------------------------------------------------------------
(* The arithmetic specification: two operands built by setElement, then combined *)

\* Largest row count and column count of an operand of add, subtract and multiply, and
\* of a matrix saved to or loaded from a file.
MaxDim == 2

OperandDims == (1..MaxDim) \X (1..MaxDim)

InitArith ==
    /\ \E d \in OperandDims : A = NewMatrix(d[1], d[2])
    /\ \E d \in OperandDims : B = NewMatrix(d[1], d[2])
    /\ file = <<>>
    /\ res = NoRes

SetInA ==
    \E row \in RowsOf(A), col \in ColsOf(A), value \in Vals :
        /\ A' = setElement(A, row, col, value).m
        /\ res' = NoRes
        /\ UNCHANGED <<B, file>>

SetInB ==
    \E row \in RowsOf(B), col \in ColsOf(B), value \in Vals :
        /\ B' = setElement(B, row, col, value).m
        /\ res' = NoRes
        /\ UNCHANGED <<A, file>>

Arith(name, r) ==
    /\ res' = [NoRes EXCEPT !.op = name, !.err = r.err, !.hasMat = r.hasMat, !.mat = r.mat]
    /\ UNCHANGED <<A, B, file>>

Add == Arith("add", add(A, B))

Subtract == Arith("subtract", subtract(A, B))

Multiply == Arith("multiply", multiply(A, B))

NextArith == SetInA \/ SetInB \/ Add \/ Subtract \/ Multiply

SpecArith == InitArith /\ [][NextArith]_vars

----------------------------------------------------------------------------
\* C1: after any sequence of setElement calls on an empty matrix of positive
\* dimensions, row_ptr has rows+1 entries, is non-decreasing, starts at 0 and ends at
\* values.length = col_indices.length, the columns of every row slice are strictly
\* increasing and inside [0, cols), and no stored value is 0.
SetPreservesInvariants == WellFormed(A)

\* A deletion (a set of 0) has just left a matrix that still holds two entries in
\* one row.
SetPreservesInvariantsWitness ==
    /\ res.op = "set" /\ res.err = "" /\ res.value = 0
    /\ Len(A.values) < A.rows * A.cols
    /\ \E r \in RowsOf(A) : A.row_ptr[r + 2] - A.row_ptr[r + 1] >= 2

\* C2: a setElement in bounds makes getElement(row, col) return the value set, and
\* leaves what getElement returns for every other cell as it was.
SetIsPointUpdate ==
    [][(res'.op = "set" /\ res'.err = "") =>
          \A r \in RowsOf(A), c \in ColsOf(A) :
              Cell(A', r, c) = IF r = res'.row /\ c = res'.col
                               THEN res'.value
                               ELSE Cell(A, r, c)]_vars

\* A set has acted on a first row while a later row holds an entry.
SetIsPointUpdateWitness ==
    /\ res.op = "set" /\ res.err = "" /\ res.row = 0
    /\ A.rows >= 2
    /\ Len(A.values) > A.row_ptr[2]
    /\ A.row_ptr[2] >= 1

\* C10: getElement and setElement with a row or a column that is negative, or at or
\* beyond the dimension, fail with the index error.
OutOfBoundsFails ==
    (/\ res.op \in {"get", "set"}
     /\ \/ res.row < 0 \/ res.row >= A.rows
        \/ res.col < 0 \/ res.col >= A.cols)
    => res.err = IndexErr

\* A set was refused for a row equal to the row count, and a get for a column equal
\* to the column count.
OutOfBoundsFailsWitness ==
    /\ res.err = IndexErr
    /\ \/ res.op = "set" /\ res.row = A.rows /\ res.col = 0 /\ res.value # 0
       \/ res.op = "get" /\ res.col = A.cols /\ res.row = 0

----------------------------------------------------------------------------
(* Reference values for the results of add, subtract and multiply *)

SameShape(m, n) == m.rows = n.rows /\ m.cols = n.cols

SameCells(m, n) ==
    /\ SameShape(m, n)
    /\ \A r \in RowsOf(m), c \in ColsOf(m) : Cell(m, r, c) = Cell(n, r, c)

\* The sum over k in [from, m.cols) of m[i,k] * n[k,j].
RECURSIVE Dot(_, _, _, _, _)
Dot(m, n, i, j, from) ==
    IF from < m.cols
    THEN Cell(m, i, from) * Cell(n, from, j) + Dot(m, n, i, j, from + 1)
    ELSE 0

IsIdentity(m) ==
    /\ m.rows = m.cols
    /\ \A r \in RowsOf(m), c \in ColsOf(m) : Cell(m, r, c) = IF r = c THEN 1 ELSE 0

\* C3: on operands of identical dimensions add holds A[r,c] + B[r,c] and subtract
\* holds A[r,c] - B[r,c] at every cell, and add(B, A) holds the same cells as add(A, B).
MergeIsCellwise ==
    /\ (res.op = "add" /\ SameShape(A, B)) =>
          /\ res.hasMat
          /\ SameShape(res.mat, A)
          /\ \A r \in RowsOf(A), c \in ColsOf(A) :
                 Cell(res.mat, r, c) = Cell(A, r, c) + Cell(B, r, c)
          /\ add(B, A).hasMat
          /\ SameCells(add(B, A).mat, res.mat)
    /\ (res.op = "subtract" /\ SameShape(A, B)) =>
          /\ res.hasMat
          /\ SameShape(res.mat, A)
          /\ \A r \in RowsOf(A), c \in ColsOf(A) :
                 Cell(res.mat, r, c) = Cell(A, r, c) - Cell(B, r, c)

\* A subtraction has merged a left-only column, a right-only column and a column held
\* by both operands.
MergeIsCellwiseWitness ==
    /\ res.op = "subtract" /\ res.hasMat
    /\ \E r \in RowsOf(A), c \in ColsOf(A) : Cell(A, r, c) # 0 /\ Cell(B, r, c) = 0
    /\ \E r \in RowsOf(A), c \in ColsOf(A) : Cell(A, r, c) = 0 /\ Cell(B, r, c) # 0
    /\ \E r \in RowsOf(A), c \in ColsOf(A) :
           Cell(A, r, c) # 0 /\ Cell(B, r, c) # 0 /\ Cell(A, r, c) # Cell(B, r, c)

\* C4: multiply of an m x n by an n x p matrix is m x p and holds at (i, j) the sum
\* over k of A[i,k] * B[k,j]; multiplying by the identity gives back the cells of A.
MultiplyIsRowByColumn ==
    (res.op = "multiply" /\ A.cols = B.rows) =>
        /\ res.hasMat
        /\ res.mat.rows = A.rows
        /\ res.mat.cols = B.cols
        /\ \A i \in RowsOf(A), j \in ColsOf(B) : Cell(res.mat, i, j) = Dot(A, B, i, j, 0)
        /\ IsIdentity(B) => SameCells(res.mat, A)

\* A product whose first output row fills a scratch column that the second output
\* row must find cleared.
MultiplyIsRowByColumnWitness ==
    /\ res.op = "multiply" /\ res.hasMat
    /\ A.rows >= 2 /\ A.cols >= 2
    /\ \E j \in ColsOf(B) :
           /\ Cell(res.mat, 0, j) # 0
           /\ Cell(res.mat, 1, j) = 0
           /\ A.row_ptr[3] - A.row_ptr[2] = 2

\* C5: the matrix returned by add, subtract and multiply satisfies I1-I3: a combined
\* value that cancels to zero is absent, and subtract(M, M) stores nothing.
ResultsAreWellFormed ==
    (res.op \in {"add", "subtract", "multiply"} /\ res.hasMat) =>
        /\ WellFormed(res.mat)
        /\ (res.op = "subtract" /\ A = B) => res.mat.values = <<>>

\* A product in which two non-zero contributions cancel in one cell while another cell
\* of the same row is stored.
ResultsAreWellFormedWitness ==
    /\ res.op = "multiply" /\ res.hasMat
    /\ \E i \in RowsOf(A), j \in ColsOf(B) :
           /\ Dot(A, B, i, j, 0) = 0
           /\ Cell(A, i, 0) * Cell(B, 0, j) # 0
           /\ \E j2 \in ColsOf(B) : j2 > j /\ Cell(res.mat, i, j2) # 0

\* C9: add and subtract fail on operands of different dimensions, multiply fails when
\* A.cols # B.rows, none of them returns a matrix then, and multiply succeeds
\* whenever A.cols = B.rows.
ShapeMismatchFails ==
    /\ (res.op = "add" /\ ~SameShape(A, B)) => res.err = AddErr /\ ~res.hasMat
    /\ (res.op = "subtract" /\ ~SameShape(A, B)) => res.err = SubErr /\ ~res.hasMat
    /\ (res.op = "multiply" /\ A.cols # B.rows) => res.err = MulErr /\ ~res.hasMat
    /\ (res.op = "multiply" /\ A.cols = B.rows) => res.err = "" /\ res.hasMat

\* An addition was refused for operands that differ in their column count only.
ShapeMismatchFailsWitness ==
    /\ res.op = "add" /\ res.err = AddErr
    /\ A.rows = B.rows /\ A.cols # B.cols

----------------------------------------------------------------------------
(* Text: a string is the sequence of its characters *)

NL == "\n"

Digit == <<"0", "1", "2", "3", "4", "5", "6", "7", "8", "9">>

IsDigit(c) == \E d \in 1..10 : Digit[d] = c

DigitValue(c) == (CHOOSE d \in 1..10 : Digit[d] = c) - 1

HexLetter == <<"a", "b", "c", "d", "e", "f">>
HexCapital == <<"A", "B", "C", "D", "E", "F">>

IsHexDigit(c) == IsDigit(c) \/ \E d \in 1..6 : HexLetter[d] = c \/ HexCapital[d] = c

HexValue(c) ==
    IF IsDigit(c) THEN DigitValue(c)
    ELSE 9 + (CHOOSE d \in 1..6 : HexLetter[d] = c \/ HexCapital[d] = c)

\* What String.prototype.trim and the class \s remove, among the characters in use.
IsSpace(c) == c \in {" ", "\t", "\r", NL}

\* `${n}` for an integer n
RECURSIVE NatToChars(_)
NatToChars(n) ==
    IF n < 10 THEN <<Digit[n + 1]>> ELSE NatToChars(n \div 10) \o <<Digit[(n % 10) + 1]>>

\* A formatter that drops the sign.
NumToCharsUnsigned(n) == IF n < 0 THEN NatToChars(0 - n) ELSE NatToChars(n)

NumToChars(n) == IF n < 0 THEN <<"-">> \o NatToChars(0 - n) ELSE NatToChars(n)

\* String.prototype.split('\n')
RECURSIVE SplitLines(_, _)
SplitLines(content, cur) ==
    IF content = <<>> THEN <<cur>>
    ELSE IF Head(content) = NL
         THEN <<cur>> \o SplitLines(Tail(content), <<>>)
         ELSE SplitLines(Tail(content), Append(cur, Head(content)))

RECURSIVE TrimStart(_)
TrimStart(str) ==
    IF str # <<>> /\ IsSpace(Head(str)) THEN TrimStart(Tail(str)) ELSE str

RECURSIVE TrimEnd(_)
TrimEnd(str) ==
    IF str # <<>> /\ IsSpace(str[Len(str)])
    THEN TrimEnd(SubSeq(str, 1, Len(str) - 1))
    ELSE str

Trim(str) == TrimEnd(TrimStart(str))

\* .filter(line => line.trim() !== '')
RECURSIVE DropBlank(_)
DropBlank(lines) ==
    IF lines = <<>> THEN <<>>
    ELSE (IF Trim(Head(lines)) # <<>> THEN <<Head(lines)>> ELSE <<>>)
         \o DropBlank(Tail(lines))

\* .replace(/\s/g, '')
RECURSIVE StripSpace(_)
StripSpace(str) ==
    IF str = <<>> THEN <<>>
    ELSE (IF IsSpace(Head(str)) THEN <<>> ELSE <<Head(str)>>) \o StripSpace(Tail(str))

\* String.prototype.split(',')
RECURSIVE SplitComma(_, _)
SplitComma(str, cur) ==
    IF str = <<>> THEN <<cur>>
    ELSE IF Head(str) = ","
         THEN <<cur>> \o SplitComma(Tail(str), <<>>)
         ELSE SplitComma(Tail(str), Append(cur, Head(str)))

----------------------------------------------------------------------------
(* parseInt(string) without a radix *)

NaN == [nan |-> TRUE, n |-> 0]
Num(n) == [nan |-> FALSE, n |-> n]

\* The value of the longest prefix of digits of the radix; acc = -1 until a digit is read.
RECURSIVE ReadDigits(_, _, _)
ReadDigits(str, radix, acc) ==
    IF str # <<>> /\ (IF radix = 16 THEN IsHexDigit(Head(str)) ELSE IsDigit(Head(str)))
    THEN ReadDigits(Tail(str), radix, (IF acc < 0 THEN 0 ELSE acc) * radix + HexValue(Head(str)))
    ELSE acc

\* The digits read, with their sign; NaN when there was no digit.
Signed(sign, acc) == IF acc < 0 THEN NaN ELSE Num(sign * acc)

\* A leading 0x or 0X selects radix 16.
ParseRadix(sign, s1) ==
    IF Len(s1) >= 2 /\ s1[1] = "0" /\ s1[2] \in {"x", "X"}
    THEN Signed(sign, ReadDigits(SubSeq(s1, 3, Len(s1)), 16, 0 - 1))
    ELSE Signed(sign, ReadDigits(s1, 10, 0 - 1))

ParseSign(s0) ==
    IF s0 # <<>> /\ Head(s0) \in {"+", "-"}
    THEN ParseRadix(IF Head(s0) = "-" THEN 0 - 1 ELSE 1, Tail(s0))
    ELSE ParseRadix(1, s0)

parseInt(str) == ParseSign(TrimStart(str))

----------------------------------------------------------------------------
(* The header patterns /rows=(\d+)/i and /cols=(\d+)/i *)

Capital == <<"R", "O", "W", "S", "C", "L">>
Small == <<"r", "o", "w", "s", "c", "l">>

\* Case folding of the i flag, for the letters of the two keys.
Fold(c) == IF \E k \in 1..6 : Capital[k] = c
           THEN Small[CHOOSE k \in 1..6 : Capital[k] = c]
           ELSE c

RowsKey == <<"r", "o", "w", "s", "=">>
ColsKey == <<"c", "o", "l", "s", "=">>

\* The key matches at p and at least one digit follows.
MatchesAt(line, key, p) ==
    /\ p + Len(key) <= Len(line)
    /\ \A k \in 1..Len(key) : Fold(line[p + k - 1]) = key[k]
    /\ IsDigit(line[p + Len(key)])

RECURSIVE DigitRun(_)
DigitRun(str) ==
    IF str # <<>> /\ IsDigit(Head(str)) THEN <<Head(str)>> \o DigitRun(Tail(str)) ELSE <<>>

\* The positions at which the pattern matches.
MatchPositions(line, key) == {p \in 1..Len(line) : MatchesAt(line, key, p)}

Leftmost(at) == CHOOSE q \in at : \A o \in at : q <= o

MatchAmong(line, key, at) ==
    IF at = {} THEN [found |-> FALSE, group |-> <<>>]
    ELSE [found |-> TRUE,
          group |-> DigitRun(SubSeq(line, Leftmost(at) + Len(key), Len(line)))]

\* String.prototype.match: the leftmost match anywhere in the line, and its group 1.
MatchHeader(line, key) == MatchAmong(line, key, MatchPositions(line, key))

----------------------------------------------------------------------------
(* loadFromFile *)

TooShortErr == "File must contain at least rows and cols definitions"
HeaderErr   == "Invalid rows/cols format. Expected 'rows=N' and 'cols=M'"
DimErr      == "Matrix dimensions must be positive integers"
ParenErr    == "Entries must be in format (row,col,value)"
CountErr    == "Expected exactly 3 values (row,col,value)"
IntErr      == "All values must be integers"
NegErr      == "Row and column indices must be non-negative"
RangeErr    == "Index out of bounds"

\* An error thrown by the load: its message and the line number the message names
\* (0 when the message names none).
Thrown(msg, lineNo) == [err |-> msg, line |-> lineNo, hasMat |-> FALSE, mat |-> NoMatrix]

\* if (col === this.cols) col = this.cols - 1
Clamp(col, cols) == IF col = cols THEN cols - 1 ELSE col

Refused(msg) == [err |-> msg, entry |-> <<>>]

\* The range check behind the clamp, and the push.
CheckRange(row, col, value, rows, cols) ==
    IF row >= rows \/ col >= cols
    THEN Refused(RangeErr)
    ELSE [err |-> "", entry |-> <<row, col, value>>]

\* The checks on the three numbers parseInt returned.
CheckFields(row, col, value, rows, cols) ==
    IF row.nan \/ col.nan \/ value.nan THEN Refused(IntErr)
    ELSE IF row.n < 0 \/ col.n < 0 THEN Refused(NegErr)
    ELSE CheckRange(row.n, Clamp(col.n, cols), value.n, rows, cols)

CheckParts(parts, rows, cols) ==
    IF Len(parts) # 3 THEN Refused(CountErr)
    ELSE CheckFields(parseInt(parts[1]), parseInt(parts[2]), parseInt(parts[3]),
                     rows, cols)

\* line is the trimmed entry line.
CheckLine(line, rows, cols) ==
    IF ~(line[1] = "(" /\ line[Len(line)] = ")") THEN Refused(ParenErr)
    ELSE CheckParts(SplitComma(StripSpace(SubSeq(line, 2, Len(line) - 1)), <<>>),
                    rows, cols)

\* The body of the loop over the entry lines, for the line at index i (0-based) of the
\* non-blank lines: an error, or the triple pushed.
ParseEntry(lines, i, rows, cols) == CheckLine(Trim(At(lines, i)), rows, cols)

\* for (i = 2; i < lines.length; i++): stops at the first line that throws.
RECURSIVE ParseEntries(_, _, _, _, _)
RECURSIVE ParseNext(_, _, _, _, _, _)
ParseEntries(lines, i, rows, cols, entries) ==
    IF i < Len(lines)
    THEN ParseNext(lines, i, rows, cols, entries, ParseEntry(lines, i, rows, cols))
    ELSE [err |-> "", line |-> 0, entries |-> entries]

ParseNext(lines, i, rows, cols, entries, e) ==
    IF e.err # "" THEN [err |-> e.err, line |-> i + 1, entries |-> <<>>]
    ELSE ParseEntries(lines, i + 1, rows, cols, Append(entries, e.entry))

\* The comparator (a, b) => a[0] - b[0] || a[1] - b[1]
Compare(a, b) == IF a[1] - b[1] # 0 THEN a[1] - b[1] ELSE a[2] - b[2]

\* An insertion that puts x in front of the elements it compares equal to.
RECURSIVE InsertEntryBefore(_, _)
InsertEntryBefore(sorted, x) ==
    IF sorted = <<>> THEN <<x>>
    ELSE IF Compare(sorted[Len(sorted)], x) >= 0
         THEN Append(InsertEntryBefore(SubSeq(sorted, 1, Len(sorted) - 1), x),
                     sorted[Len(sorted)])
         ELSE Append(sorted, x)

\* Array.prototype.sort is stable: x goes behind every element that does not compare
\* greater than it.
RECURSIVE InsertEntry(_, _)
InsertEntry(sorted, x) ==
    IF sorted = <<>> THEN <<x>>
    ELSE IF Compare(sorted[Len(sorted)], x) > 0
         THEN Append(InsertEntry(SubSeq(sorted, 1, Len(sorted) - 1), x),
                     sorted[Len(sorted)])
         ELSE Append(sorted, x)

RECURSIVE SortEntries(_)
SortEntries(entries) ==
    IF entries = <<>> THEN <<>>
    ELSE InsertEntry(SortEntries(SubSeq(entries, 1, Len(entries) - 1)),
                     entries[Len(entries)])

\* for (const [row, col, value] of entries) this.setElement(row, col, value)
RECURSIVE Populate(_, _)
Populate(m, entries) ==
    IF entries = <<>> THEN m
    ELSE Populate(setElement(m, Head(entries)[1], Head(entries)[2], Head(entries)[3]).m,
                  Tail(entries))

\* The sort and the population of the arrays, once every entry line has passed.
Build(rows, cols, parsed) ==
    IF parsed.err # "" THEN Thrown(parsed.err, parsed.line)
    ELSE [err |-> "", line |-> 0, hasMat |-> TRUE,
          mat |-> Populate(NewMatrix(rows, cols), SortEntries(parsed.entries))]

LoadEntries(lines, rows, cols) ==
    IF rows <= 0 \/ cols <= 0 THEN Thrown(DimErr, 0)
    ELSE Build(rows, cols, ParseEntries(lines, 2, rows, cols, <<>>))

LoadHeader(lines, rowsMatch, colsMatch) ==
    IF ~rowsMatch.found \/ ~colsMatch.found THEN Thrown(HeaderErr, 0)
    ELSE LoadEntries(lines, parseInt(rowsMatch.group).n, parseInt(colsMatch.group).n)

\* lines are the non-blank lines of the file.
LoadLines(lines) ==
    IF Len(lines) < 2 THEN Thrown(TooShortErr, 0)
    ELSE LoadHeader(lines, MatchHeader(lines[1], RowsKey), MatchHeader(lines[2], ColsKey))

\* new SparseMatrix(filePath) on a file with this content
loadFromFile(content) == LoadLines(DropBlank(SplitLines(content, <<>>)))

----------------------------------------------------------------------------
(* saveToFile *)

\* `(${i}, ${col}, ${value})\n`
EntryLine(i, col, value) ==
    <<"(">> \o NumToChars(i) \o <<",", " ">> \o NumToChars(col) \o <<",", " ">>
            \o NumToChars(value) \o <<")", NL>>

RECURSIVE RowLines(_, _, _, _)
RowLines(m, i, j, end) ==
    IF j < end
    THEN EntryLine(i, At(m.col_indices, j), At(m.values, j)) \o RowLines(m, i, j + 1, end)
    ELSE <<>>

RECURSIVE AllRowLines(_, _)
AllRowLines(m, i) ==
    IF i < m.rows
    THEN RowLines(m, i, At(m.row_ptr, i), RowEnd(m, i)) \o AllRowLines(m, i + 1)
    ELSE <<>>

\* The text written by saveToFile.
saveToFile(m) ==
    RowsKey \o NumToChars(m.rows) \o <<NL>> \o ColsKey \o NumToChars(m.cols) \o <<NL>>
        \o AllRowLines(m, 0)

----------------------------------------------------------------------------
(* The round-trip specification: a matrix built by setElement, saved, loaded *)

SaveToFile ==
    /\ file' = saveToFile(A)
    /\ res' = [NoRes EXCEPT !.op = "save"]
    /\ UNCHANGED <<A, B>>

LoadFromFile ==
    /\ LET r == loadFromFile(file) IN
       res' = [NoRes EXCEPT !.op = "load", !.err = r.err, !.line = r.line,
                            !.hasMat = r.hasMat, !.mat = r.mat]
    /\ UNCHANGED <<A, B, file>>

InitRoundTrip ==
    /\ \E d \in OperandDims : A = NewMatrix(d[1], d[2])
    /\ B = NoMatrix
    /\ file = <<>>
    /\ res = NoRes

NextRoundTrip == SetInA \/ SaveToFile \/ LoadFromFile

SpecRoundTrip == InitRoundTrip /\ [][NextRoundTrip]_vars

----------------------------------------------------------------------------
(* The parse specification: a file written line by line, then loaded *)

\* Largest number of lines of an input file.
MaxLines == 4

\* Rows up to the largest dimension less one and columns up to the largest dimension:
\* under a smaller header the larger ones are out of range, or clamped.
WellFormedEntries ==
    {EntryLine(r, c, v) : r \in 0..(MaxDim - 1), c \in 0..MaxDim, v \in Vals}

\* Entry lines that stray from the grammar, each in one way.
OddEntries ==
    {<<"(", "0", ",", " ", "0", ",", " ", "1", NL>>,
     <<"0", ",", " ", "0", ",", " ", "1", NL>>,
     <<"(", "0", ",", " ", "0", ")", NL>>,
     <<"(", "0", ",", "0", ",", "1", ",", "1", ")", NL>>,
     <<"(", "0", ",", " ", "0", ",", " ", "x", ")", NL>>,
     <<"(", "0", ",", " ", "0", ",", " ", "1", ".", "5", ")", NL>>,
     <<"(", "0", ",", " ", "1", "x", ",", " ", "1", ")", NL>>,
     <<"(", "0", ",", " ", "0", ",", " ", "0", "x", "1", ")", NL>>,
     <<"(", "0", ",", " ", "0", ",", " ", "1", ")", ")", NL>>,
     <<"(", "-", "1", ",", " ", "0", ",", " ", "1", ")", NL>>,
     <<"(", "0", ",", " ", "-", "1", ",", " ", "1", ")", NL>>,
     <<" ", "(", "\t", "0", ",", "0", " ", ",", "1", " ", ")", "\r", NL>>}

BlankLines == {<<NL>>, <<" ", NL>>}

RowsLines ==
    {RowsKey \o NumToChars(n) \o <<NL>> : n \in 0..MaxDim}
    \cup {<<"r", "o", "w", "s", "=", "2", ".", "5", NL>>,
          <<"r", "o", "w", "s", " ", "2", NL>>}

ColsLines ==
    {ColsKey \o NumToChars(n) \o <<NL>> : n \in 1..MaxDim}
    \cup {<<"c", "o", "l", "s", "=", "2", ".", "5", NL>>,
          <<"c", "o", "l", "s", "=", "-", "2", NL>>}

NonBlankLines(content) == DropBlank(SplitLines(content, <<>>))

\* The lines split('\n') yields, without the empty string behind the last newline.
TextLines(content) ==
    LET all == SplitLines(content, <<>>) IN SubSeq(all, 1, Len(all) - 1)

LineChoices(content) ==
    LET k == Len(NonBlankLines(content))
    IN  BlankLines \cup (IF k = 0 THEN RowsLines
                         ELSE IF k = 1 THEN ColsLines
                         ELSE WellFormedEntries \cup OddEntries)

InitParse ==
    /\ A = NoMatrix
    /\ B = NoMatrix
    /\ file = <<>>
    /\ res = NoRes

WriteLine ==
    /\ Len(TextLines(file)) < MaxLines
    /\ \E l \in LineChoices(file) : file' = file \o l
    /\ res' = NoRes
    /\ UNCHANGED <<A, B>>

NextParse == WriteLine \/ LoadFromFile

SpecParse == InitParse /\ [][NextParse]_vars

----------------------------------------------------------------------------
(* The grammar of section 4.5, read strictly *)

\* An optional sign and then digits only.
IsInteger(str) ==
    LET body == IF str # <<>> /\ Head(str) \in {"+", "-"} THEN Tail(str) ELSE str
    IN  body # <<>> /\ \A k \in 1..Len(body) : IsDigit(body[k])

\* The line is the key followed by digits only.
IsHeader(line, key) ==
    LET t == Trim(line)
    IN  /\ Len(t) > Len(key)
        /\ \A k \in 1..Len(key) : Fold(t[k]) = key[k]
        /\ \A k \in (Len(key) + 1)..Len(t) : IsDigit(t[k])

HeaderValue(line, key) == parseInt(SubSeq(Trim(line), Len(key) + 1, Len(Trim(line)))).n

\* The fields between the outer parentheses, whitespace removed.
FieldsOf(line) ==
    LET t == Trim(line) IN SplitComma(StripSpace(SubSeq(t, 2, Len(t) - 1)), <<>>)

\* A parenthesised triple of integers.
IsTriple(line) ==
    LET t == Trim(line)
    IN  /\ Len(t) >= 2 /\ t[1] = "(" /\ t[Len(t)] = ")"
        /\ Len(FieldsOf(line)) = 3
        /\ \A k \in 1..3 : IsInteger(FieldsOf(line)[k])

\* A triple whose row is in [0, rows) and whose column is in [0, cols].
InRange(line, rows, cols) ==
    LET row == parseInt(FieldsOf(line)[1]).n
        col == parseInt(FieldsOf(line)[2]).n
    IN  row >= 0 /\ row < rows /\ col >= 0 /\ col <= cols

\* The input has one of the defects for which section 4.5 demands a failure.
Malformed(content) ==
    LET lines == NonBlankLines(content) IN
    \/ Len(lines) < 2
    \/ ~IsHeader(lines[1], RowsKey)
    \/ ~IsHeader(lines[2], ColsKey)
    \/ \E i \in 3..Len(lines) :
           \/ ~IsTriple(lines[i])
           \/ ~InRange(lines[i], HeaderValue(lines[1], RowsKey),
                       HeaderValue(lines[2], ColsKey))

\* The value of the last entry line, in input order, that maps to the cell (r, c)
\* once a column equal to cols is moved to cols - 1; 0 when there is none.
LastValue(content, cols, r, c) ==
    LET lines == NonBlankLines(content)
        hits  == {i \in 3..Len(lines) :
                     /\ parseInt(FieldsOf(lines[i])[1]).n = r
                     /\ LET col == parseInt(FieldsOf(lines[i])[2]).n
                        IN  (IF col = cols THEN cols - 1 ELSE col) = c}
    IN  IF hits = {} THEN 0
        ELSE parseInt(FieldsOf(lines[CHOOSE i \in hits : \A j \in hits : j <= i])[3]).n

\* C7: an accepted input yields the matrix that holds at each cell the value of the
\* last entry line for that cell, a column equal to cols counting as cols - 1, and 0
\* where no entry line maps.
LastEntryWins ==
    (res.op = "load" /\ res.hasMat) =>
        \A r \in RowsOf(res.mat), c \in ColsOf(res.mat) :
            Cell(res.mat, r, c) = LastValue(file, res.mat.cols, r, c)

\* Two entry lines with different non-zero values met in the last column, the later
\* one through the clamp.
LastEntryWinsWitness ==
    /\ res.op = "load" /\ res.hasMat
    /\ res.mat.cols = 2
    /\ LET lines == NonBlankLines(file) IN
       /\ Len(lines) = 4
       /\ parseInt(FieldsOf(lines[3])[2]).n = 1
       /\ parseInt(FieldsOf(lines[4])[2]).n = 2
       /\ parseInt(FieldsOf(lines[3])[1]).n = parseInt(FieldsOf(lines[4])[1]).n
       /\ parseInt(FieldsOf(lines[3])[3]).n = 1
       /\ parseInt(FieldsOf(lines[4])[3]).n = 0 - 1

\* C8: an input with a missing or malformed header, an entry line that is no
\* parenthesised triple of integers, a negative or too large row, or a column beyond
\* cols is refused: the load throws and yields no matrix.
MalformedInputRefused ==
    (res.op = "load" /\ Malformed(file)) => (res.err # "" /\ ~res.hasMat)

\* Row and column of the entry line i of the lines.
RowAt(lines, i) == parseInt(FieldsOf(lines[i])[1]).n
ColAt(lines, i) == parseInt(FieldsOf(lines[i])[2]).n

\* Behind the two header lines come only triples, in row-major, column-ascending order.
InRowMajorOrder(content) ==
    LET lines == TextLines(content) IN
    \A i \in 3..Len(lines) :
        /\ IsTriple(lines[i])
        /\ i < Len(lines) =>
               \/ RowAt(lines, i) < RowAt(lines, i + 1)
               \/ RowAt(lines, i) = RowAt(lines, i + 1) /\ ColAt(lines, i) < ColAt(lines, i + 1)

\* C6: the text saved from a matrix is the header and one line per stored entry in
\* row-major, column-ascending order, and loading it yields a matrix of the same
\* dimensions with the same value at every cell.
RoundTrip ==
    (res.op = "load" /\ file = saveToFile(A)) =>
        /\ Len(TextLines(file)) = 2 + Len(A.values)
        /\ InRowMajorOrder(file)
        /\ res.hasMat
        /\ SameCells(res.mat, A)

\* A matrix holding a negative value and two entries in its second row, none in its
\* first, was saved and loaded.
RoundTripWitness ==
    /\ res.op = "load" /\ res.hasMat /\ file = saveToFile(A)
    /\ \E p \in 1..Len(A.values) : A.values[p] < 0
    /\ \E r \in RowsOf(A) : A.row_ptr[r + 2] - A.row_ptr[r + 1] >= 2
    /\ A.row_ptr[2] = 0 /\ A.rows >= 2

====
